---------------------------- MODULE Spec2Model ----------------------------
(***************************************************************************)
(* Model of the DynamicGrid backtest engine (src/src/logic.py).            *)
(*                                                                         *)
(* Representation.  Prices are integers counted in tenths of an index      *)
(* point (the tick precision of the log and of the grid levels).  Money is *)
(* an integer amount of VND.  Volatility and grid spacing are exact        *)
(* rationals <<num, den>> counted in tenths of a point; the floating-point *)
(* arithmetic of the program is modelled by exact rational arithmetic.     *)
(* A timestamp is <<date, minute of the day>>.                             *)
(***************************************************************************)
EXTENDS Integers, Sequences, FiniteSets, TLC

(***************************************************************************)
(* Rational arithmetic                                                     *)
(***************************************************************************)
Abs(x) == IF x < 0 THEN -x ELSE x

RECURSIVE GCD(_, _)
GCD(a, b) == IF b = 0 THEN a ELSE GCD(b, a % b)

Rat(n, d) == LET g == GCD(Abs(n), d) IN <<n \div g, d \div g>>

RInt(k) == <<k, 1>>

RMul(a, b) == Rat(a[1] * b[1], a[2] * b[2])

RAdd(a, b) == Rat(a[1] * b[2] + b[1] * a[2], a[2] * b[2])

RSub(a, b) == Rat(a[1] * b[2] - b[1] * a[2], a[2] * b[2])

RLt(a, b) == a[1] * b[2] < b[1] * a[2]

RLe(a, b) == a[1] * b[2] <= b[1] * a[2]

RMax(a, b) == IF RLt(a, b) THEN b ELSE a

RMin(a, b) == IF RLt(b, a) THEN b ELSE a

\* not-a-number of pandas / numpy
NaN == <<0, 0>>

IsNaN(a) == a[2] = 0

\* Python None for the rational-valued attributes
None == <<>>

\* round(x, 1) of a value counted in tenths: nearest integer, ties to even
Round1(a) ==
    LET fl == a[1] \div a[2]
        r2 == 2 * (a[1] - fl * a[2])
    IN  IF r2 < a[2] THEN fl
        ELSE IF r2 > a[2] THEN fl + 1
        ELSE IF fl % 2 = 0 THEN fl ELSE fl + 1

(***************************************************************************)
(* Sequence helpers                                                        *)
(***************************************************************************)
RECURSIVE SumSeq(_)
SumSeq(s) == IF s = <<>> THEN 0 ELSE Head(s) + SumSeq(Tail(s))

\* list.remove(x): drop the first element equal to x
RECURSIVE Remove(_, _)
Remove(s, x) ==
    IF s = <<>> THEN <<>>
    ELSE IF Head(s) = x THEN Tail(s)
    ELSE <<Head(s)>> \o Remove(Tail(s), x)

Contains(s, x) == \E k \in 1..Len(s) : s[k] = x

(***************************************************************************)
(* Program constants                                                       *)
(***************************************************************************)
\* tenths per index point: one decimal of price precision
PriceScale == 10

MinutesPerDay == 1440

max_contracts == 12

max_positions == 12

daily_fee_limit == 50000000

short_atr_window == 60

\* variant: one more BUY per side
max_buys_seven == 6 + 1

max_buys == 6

max_sells == 6

overnight_fee_per_position == 2550

max_loss_unit == 500000

grid_size_cap == 10

\* self.last_valid_atr = 1.0 index point
initial_last_valid_atr == RInt(1 * PriceScale)

\* default of the last_valid_atr parameter of calculate_atr: 1.0 index point
default_last_valid_atr == RInt(1 * PriceScale)

\* session boundaries, minutes of the day
trading_start == 9 * 60

trading_end == 14 * 60 + 29

end_close == 14 * 60 + 30

premarket_start == 8 * 60 + 45

(***************************************************************************)
(* State                                                                   *)
(***************************************************************************)
VARIABLES
    family,         \* the family of inputs the run is drawn from
    cfg,            \* constructor arguments of DynamicGridBacktest
    prices,         \* the part of the input series read so far: [date, time, price]
    n_ticks,        \* len(prices) of the whole input series
    last_data_date, \* prices.index[-1].date()
    pc,             \* "new", "loop", "metrics", "none", "crash"
    i,              \* loop index of backtest (0-based, as in the program)
    capital,
    positions,      \* list of <<side, entry_price, size>>
    equity_series,  \* one slot per tick read so far: <<>> is NaN, <<v>> a value
    trades,         \* list of <<side, price, price, size>>
    trade_history,  \* list of [ts, type, price, size, profit, fee]
    last_date,
    daily_fee,
    last_valid_atr,
    daily_atr,
    current_pivot,
    grid_size,      \* local of backtest
    size,           \* local of backtest
    mid_positions,  \* ledgers seen inside the entry loop of the last tick, right after each append
    tick_info,      \* what the last loop iteration did (observation only)
    probe,          \* argument of a direct call of calculate_grid (<<>> in a run)
    metrics,        \* result bundle of calculate_performance_metrics
    log_file        \* lines this run wrote to trade_log.txt: the header, then the
                    \* type of each logged trade (<<>>: the file was not opened)

vars == <<family, cfg, prices, n_ticks, last_data_date, pc, i, capital, positions,
          equity_series, trades, trade_history, last_date, daily_fee,
          last_valid_atr, daily_atr, current_pivot, grid_size, size,
          mid_positions, tick_info, probe, metrics, log_file>>

\* Python None for the integer-valued attributes (dates and prices are positive)
NoneInt == 0 - 1

(***************************************************************************)
(* calculate_atr, window mode                                              *)
(***************************************************************************)
\* number of non-NaN entries of prices.diff().abs().tail(window)
ValidDiffs(ps, window) ==
    IF window >= Len(ps) THEN (IF Len(ps) = 0 THEN 0 ELSE Len(ps) - 1)
    ELSE (IF window < 0 THEN 0 ELSE window)

RECURSIVE SumAbsDiffs(_, _, _)
SumAbsDiffs(ps, from, to) ==
    IF from > to THEN 0
    ELSE Abs(ps[from] - ps[from - 1]) + SumAbsDiffs(ps, from + 1, to)

calculate_atr(ps, window, lva) ==
    LET nv  == ValidDiffs(ps, window)
        atr == IF nv = 0 THEN NaN
               ELSE Rat(SumAbsDiffs(ps, Len(ps) - nv + 1, Len(ps)), nv)
    IN  IF ~IsNaN(atr) /\ nv >= window \div 2 THEN atr ELSE lva

PriceOf(ps) == [k \in 1..Len(ps) |-> ps[k].price]

(***************************************************************************)
(* Session clock                                                           *)
(***************************************************************************)
\* variant: 09:00 itself is not trading time
is_trading_time_open(ts) == trading_start < ts[2] /\ ts[2] <= trading_end

is_trading_time(ts) == trading_start <= ts[2] /\ ts[2] <= trading_end

\* variant: 14:29 itself is not in the end-of-day window
is_end_of_day_late(ts) == trading_end < ts[2] /\ ts[2] <= end_close

is_end_of_day(ts) == trading_end <= ts[2] /\ ts[2] <= end_close

(***************************************************************************)
(* Money                                                                   *)
(***************************************************************************)
\* fee_per_trade * contract_value
Fee == (cfg.fee_per_trade[1] * cfg.contract_value) \div cfg.fee_per_trade[2]

\* (price difference in tenths) * size * contract_value
Pnl(dp, sz) == (dp * sz * cfg.contract_value) \div PriceScale

Trade(ts, type, price, sz, profit, fee) ==
    [ts |-> ts, type |-> type, price |-> price, size |-> sz,
     profit |-> profit, fee |-> fee]

(***************************************************************************)
(* calculate_grid                                                          *)
(***************************************************************************)
OpenContracts(pos) == SumSeq([k \in 1..Len(pos) |-> pos[k][3]])

\* variant: the grid widened by the short ATR is not clamped again
calculate_grid_noclamp(self, current_atr, ps, index) ==
    LET atr  == IF IsNaN(current_atr) THEN self.last_valid_atr ELSE current_atr
        lva  == atr
        cap  == RInt(grid_size_cap * PriceScale)
        g0   == RMin(RMax(RMul(cfg.grid_size_factor, atr),
                          RMul(cfg.minimum_grid_size, RInt(PriceScale))), cap)
        spl  == IF OpenContracts(self.positions) + 1 > max_contracts THEN 0 ELSE 1
        g1   == IF index >= short_atr_window
                THEN LET short_atr == calculate_atr(SubSeq(ps, 1, index + 1),
                                                    short_atr_window, lva)
                         sa == IF IsNaN(short_atr) THEN lva ELSE short_atr
                     IN  RMax(g0, RMul(sa, cfg.grid_size_factor))
                ELSE g0
    IN  [self EXCEPT !.grid_size = g1, !.size = spl, !.last_valid_atr = lva]

calculate_grid(self, current_atr, ps, index) ==
    LET atr  == IF IsNaN(current_atr) THEN self.last_valid_atr ELSE current_atr
        lva  == atr
        cap  == RInt(grid_size_cap * PriceScale)
        g0   == RMin(RMax(RMul(cfg.grid_size_factor, atr),
                          RMul(cfg.minimum_grid_size, RInt(PriceScale))), cap)
        spl  == IF OpenContracts(self.positions) + 1 > max_contracts THEN 0 ELSE 1
        g1   == IF index >= short_atr_window
                THEN LET short_atr == calculate_atr(SubSeq(ps, 1, index + 1),
                                                    short_atr_window, lva)
                         sa == IF IsNaN(short_atr) THEN lva ELSE short_atr
                     IN  RMin(RMax(g0, RMul(sa, cfg.grid_size_factor)), cap)
                ELSE g0
    IN  [self EXCEPT !.grid_size = g1, !.size = spl, !.last_valid_atr = lva]

(***************************************************************************)
(* apply_overnight_fee                                                     *)
(***************************************************************************)
\* variant: one flat fee whatever the number of open positions
apply_overnight_fee_flat(self, ts) ==
    IF self.positions # <<>>
    THEN LET total == overnight_fee_per_position
         IN  [self EXCEPT
                !.capital = @ - total,
                !.trade_history = Append(@, Trade(ts, "OVERNIGHT_FEE", 0,
                                                  Len(self.positions), 0, total))]
    ELSE self

apply_overnight_fee(self, ts) ==
    IF self.positions # <<>>
    THEN LET total == Len(self.positions) * overnight_fee_per_position
         IN  [self EXCEPT
                !.capital = @ - total,
                !.trade_history = Append(@, Trade(ts, "OVERNIGHT_FEE", 0,
                                                  Len(self.positions), 0, total))]
    ELSE self

(***************************************************************************)
(* close_all_positions                                                     *)
(***************************************************************************)
ClosePnl(pos, price) ==
    Pnl(IF pos[1] = "BUY" THEN price - pos[2] ELSE pos[2] - price, pos[3])

RECURSIVE CloseEach(_, _, _, _, _)
CloseEach(self, todo, price, ts, total_fee) ==
    IF todo = <<>> THEN [self |-> self, total_fee |-> total_fee]
    ELSE LET pos    == Head(todo)
             profit == ClosePnl(pos, price) - Fee
             s1     == [self EXCEPT
                          !.capital = @ + profit,
                          !.positions = Remove(@, pos),
                          !.trade_history = Append(@, Trade(ts, IF pos[1] = "BUY" THEN "CLOSE_BUY" ELSE "CLOSE_SELL",
                                                            price, pos[3], profit, Fee))]
         IN  CloseEach(s1, Tail(todo), price, ts, total_fee + Fee)

\* variant: the ledger is iterated while it is being emptied, so that every second
\* position is passed over
close_all_positions_skip(self, price, ts) ==
    LET r == CloseEach(self, [k \in 1..((Len(self.positions) + 1) \div 2) |->
                                 self.positions[2 * k - 1]], price, ts, 0)
    IN  IF r.total_fee > 0
        THEN [r.self EXCEPT !.trade_history =
                 Append(@, Trade(ts, "TOTAL_FEE", price, 0, 0, r.total_fee))]
        ELSE r.self

\* variant: the summary record of the fees is not written
close_all_positions_nototal(self, price, ts) ==
    CloseEach(self, self.positions, price, ts, 0).self

close_all_positions(self, price, ts) ==
    LET r == CloseEach(self, self.positions, price, ts, 0)
    IN  IF r.total_fee > 0
        THEN [r.self EXCEPT !.trade_history =
                 Append(@, Trade(ts, "TOTAL_FEE", price, 0, 0, r.total_fee))]
        ELSE r.self

(***************************************************************************)
(* backtest: take-profit and max-loss loop over a copy of the ledger       *)
(***************************************************************************)
max_loss_per_trade == max_loss_unit * cfg.max_loss

\* variant: the take-profit factor is left out
TakeProfit_nofactor(g) == RMul(g, Rat(cfg.contract_value, PriceScale))

\* take_profit_factor * grid_size * contract_value
TakeProfit(g) == RMul(RMul(cfg.take_profit_factor, g), Rat(cfg.contract_value, PriceScale))

Loss(pos, price) ==
    IF pos[1] = "BUY"
    THEN (IF price < pos[2] THEN Pnl(pos[2] - price, pos[3]) ELSE 0)
    ELSE (IF price > pos[2] THEN Pnl(price - pos[2], pos[3]) ELSE 0)

Rebase(self, price, ts, P, idx) ==
    LET c   == [close_all_positions(self, price, ts) EXCEPT !.current_pivot = price]
        atr == calculate_atr(SubSeq(P, 1, idx + 1), short_atr_window, c.last_valid_atr)
    IN  calculate_grid(c, atr, P, idx)

\* variant: a position at its loss limit is closed alone and the loop goes on
RECURSIVE ExitLoop_single(_, _, _, _, _, _, _)
ExitLoop_single(self, todo, price, ts, P, idx, take_profit) ==
    IF todo = <<>> THEN self
    ELSE LET pos    == Head(todo)
             profit == ClosePnl(pos, price)
             closed == [self EXCEPT
                          !.capital = @ + profit - Fee,
                          !.positions = Remove(@, pos),
                          !.trade_history = Append(@, Trade(ts,
                              IF RLe(take_profit, RInt(profit))
                              THEN (IF pos[1] = "BUY" THEN "TAKE_PROFIT_BUY" ELSE "TAKE_PROFIT_SELL")
                              ELSE (IF pos[1] = "BUY" THEN "CLOSE_BUY" ELSE "CLOSE_SELL"),
                              price, pos[3], profit - Fee, Fee))]
         IN  IF RLe(take_profit, RInt(profit))
             THEN ExitLoop_single(closed, Tail(todo), price, ts, P, idx, take_profit)
             ELSE IF Loss(pos, price) >= max_loss_per_trade
                  THEN ExitLoop_single([closed EXCEPT !.forced = TRUE, !.current_pivot = price],
                                       Tail(todo), price, ts, P, idx, take_profit)
                  ELSE ExitLoop_single(self, Tail(todo), price, ts, P, idx, take_profit)

RECURSIVE ExitLoop(_, _, _, _, _, _, _)
ExitLoop(self, todo, price, ts, P, idx, take_profit) ==
    IF todo = <<>> THEN self
    ELSE LET pos    == Head(todo)
             profit == ClosePnl(pos, price)
         IN  IF RLe(take_profit, RInt(profit))
             THEN LET net == profit - Fee
                      s1  == [self EXCEPT
                                !.capital = @ + net,
                                !.positions = Remove(@, pos),
                                !.trade_history = Append(@, Trade(ts,
                                    IF pos[1] = "BUY" THEN "TAKE_PROFIT_BUY" ELSE "TAKE_PROFIT_SELL",
                                    price, pos[3], net, Fee))]
                  IN  ExitLoop(s1, Tail(todo), price, ts, P, idx, take_profit)
             ELSE IF Loss(pos, price) >= max_loss_per_trade
                  THEN [Rebase(self, price, ts, P, idx) EXCEPT !.forced = TRUE]
                  ELSE ExitLoop(self, Tail(todo), price, ts, P, idx, take_profit)

(***************************************************************************)
(* backtest: new-entry loop over the six grid levels                       *)
(***************************************************************************)
\* round(pivot -/+ (n - 0.5) * grid_size, 1)
buy_level(pivot, g, n) == Round1(RSub(RInt(pivot), RMul(<<2 * n - 1, 2>>, g)))

sell_level(pivot, g, n) == Round1(RAdd(RInt(pivot), RMul(<<2 * n - 1, 2>>, g)))

\* variant: only a position at exactly the tick price counts as near
NearSameSide_exact(pos, side, price, g) ==
    \E k \in 1..Len(pos) : pos[k][1] = side /\ pos[k][2] = price

NearSameSide(pos, side, price, g) ==
    \E k \in 1..Len(pos) :
        pos[k][1] = side /\ RLt(RInt(Abs(pos[k][2] - price)), RMul(g, <<1, 2>>))

SideOnly(pos, side) == SelectSeq(pos, LAMBDA p : p[1] = side)

\* variant: the new position is kept next to the opposite ones, nothing is netted
OpenAndPair_keep(self, side, price, ts) ==
    [self |-> [self EXCEPT
                 !.positions = Append(@, <<side, price, self.size>>),
                 !.trades = Append(@, <<side, price, price, self.size>>),
                 !.trade_history = Append(@, Trade(ts, side, price, self.size, 0, 0)),
                 !.mid = Append(@, Append(self.positions, <<side, price, self.size>>))],
     paired |-> FALSE]

\* variant: the new position is netted against the newest opposite one
OpenAndPair_newest(self, side, price, ts) ==
    LET new   == <<side, price, self.size>>
        s1    == [self EXCEPT
                    !.positions = Append(@, new),
                    !.trades = Append(@, <<side, price, price, self.size>>),
                    !.trade_history = Append(@, Trade(ts, side, price, self.size, 0, 0)),
                    !.mid = Append(@, Append(self.positions, new))]
        opp   == SideOnly(s1.positions, IF side = "BUY" THEN "SELL" ELSE "BUY")
    IN  IF opp # <<>>
        THEN LET old    == opp[Len(opp)]
                 before == Pnl(IF side = "BUY" THEN old[2] - price ELSE price - old[2], self.size)
                 profit == before - Fee
             IN  [self   |-> [s1 EXCEPT
                                !.capital = @ + profit,
                                !.positions = Remove(Remove(@, old), new),
                                !.trade_history = Append(@, Trade(ts, "CLOSE_PAIR", price,
                                                                  self.size, profit, Fee))],
                  paired |-> TRUE]
        ELSE [self |-> s1, paired |-> FALSE]

\* open a position of the given side and net it against the oldest opposite one
OpenAndPair(self, side, price, ts) ==
    LET new   == <<side, price, self.size>>
        s1    == [self EXCEPT
                    !.positions = Append(@, new),
                    !.trades = Append(@, <<side, price, price, self.size>>),
                    !.trade_history = Append(@, Trade(ts, side, price, self.size, 0, 0)),
                    !.mid = Append(@, Append(self.positions, new))]
        opp   == SideOnly(s1.positions, IF side = "BUY" THEN "SELL" ELSE "BUY")
    IN  IF opp # <<>>
        THEN LET old    == opp[1]
                 before == Pnl(IF side = "BUY" THEN old[2] - price ELSE price - old[2], self.size)
                 profit == before - Fee
             IN  [self   |-> [s1 EXCEPT
                                !.capital = @ + profit,
                                !.positions = Remove(Remove(@, old), new),
                                !.trade_history = Append(@, Trade(ts, "CLOSE_PAIR", price,
                                                                  self.size, profit, Fee))],
                  paired |-> TRUE]
        ELSE [self |-> s1, paired |-> FALSE]

RECURSIVE EntryLoop(_, _, _, _, _, _)
EntryLoop(self, n, num_buys, num_sells, price, ts) ==
    IF n > 6 THEN self
    ELSE LET g       == self.grid_size
             buyOk   == /\ num_buys < max_buys
                        /\ price <= buy_level(self.current_pivot, g, n)
                        /\ ~NearSameSide(self.positions, "BUY", price, g)
             b       == IF buyOk THEN OpenAndPair(self, "BUY", price, ts)
                        ELSE [self |-> self, paired |-> FALSE]
             nb1     == IF buyOk THEN num_buys + 1 ELSE num_buys
         IN  IF b.paired
             THEN EntryLoop(b.self, n + 1, nb1 - 1, num_sells - 1, price, ts)
             ELSE LET sellOk == /\ num_sells < max_sells
                                /\ price >= sell_level(b.self.current_pivot, g, n)
                                /\ ~NearSameSide(b.self.positions, "SELL", price, g)
                      c      == IF sellOk THEN OpenAndPair(b.self, "SELL", price, ts)
                                ELSE [self |-> b.self, paired |-> FALSE]
                      ns1    == IF sellOk THEN num_sells + 1 ELSE num_sells
                  IN  IF c.paired
                      THEN EntryLoop(c.self, n + 1, nb1 - 1, ns1 - 1, price, ts)
                      ELSE EntryLoop(c.self, n + 1, nb1, ns1, price, ts)

(***************************************************************************)
(* check_daily_fee                                                         *)
(***************************************************************************)
check_daily_fee(self, ts, fee) ==
    LET s1 == IF self.last_date # ts[1]
              THEN [self EXCEPT !.daily_fee = 0, !.last_date = ts[1]]
              ELSE self
        s2 == [s1 EXCEPT !.daily_fee = @ + fee]
    IN  [self |-> s2, over |-> s2.daily_fee > daily_fee_limit]

(***************************************************************************)
(* backtest: one iteration of the loop over the ticks                      *)
(***************************************************************************)
\* variant: every position is valued as a BUY
Unrealized_long(pos, price) ==
    SumSeq([k \in 1..Len(pos) |-> Pnl(price - pos[k][2], pos[k][3])])

Unrealized(pos, price) ==
    SumSeq([k \in 1..Len(pos) |-> ClosePnl(pos[k], price)])

\* prices[(index >= date 08:45) & (index < date 09:00)]
daily_initial_data(ps, date) ==
    PriceOf(SelectSeq(ps, LAMBDA r : r.date = date /\ r.time >= premarket_start
                                                  /\ r.time < trading_start))

\* variant: only the upper edge of the band is watched
PivotBreach_upper(self, price) ==
    LET w == RMul(RInt(cfg.move_pivot), self.grid_size)
    IN  RLt(RAdd(RInt(self.current_pivot), w), RInt(price))

\* variant: the band is twice as wide
PivotBreach_double(self, price) ==
    LET w == RMul(RInt(2 * cfg.move_pivot), self.grid_size)
    IN  \/ RLt(RInt(price), RSub(RInt(self.current_pivot), w))
        \/ RLt(RAdd(RInt(self.current_pivot), w), RInt(price))

PivotBreach(self, price) ==
    LET w == RMul(RInt(cfg.move_pivot), self.grid_size)
    IN  \/ RLt(RInt(price), RSub(RInt(self.current_pivot), w))
        \/ RLt(RAdd(RInt(self.current_pivot), w), RInt(price))

NoInfo(path) ==
    [path |-> path, band_pivot |-> NoneInt, band_grid |-> None, breach |-> FALSE,
     tp_grid |-> None, tp_ledger |-> <<>>, forced |-> FALSE, final_close |-> FALSE]

\* variant: the grid is computed anew on every evaluated tick
GridInit_always(self, current_atr, P, idx) == calculate_grid(self, current_atr, P, idx)

\* lines 161-162: the grid is computed on the first evaluated tick
GridInit(self, current_atr, P, idx) ==
    IF self.grid_size = None THEN calculate_grid(self, current_atr, P, idx) ELSE self

\* lines 163-170: the pivot band is tested and the grid rebased on a breach
BreachStep(s3, br, price, ts, P, idx) ==
    [(IF br THEN Rebase(s3, price, ts, P, idx) ELSE s3) EXCEPT
        !.info = [NoInfo("eval") EXCEPT !.band_pivot = s3.current_pivot,
                                        !.band_grid = s3.grid_size,
                                        !.breach = br]]

\* lines 172-220: take-profit and max-loss over a copy of the ledger
ExitStep(s4, price, ts, P, idx) ==
    ExitLoop([s4 EXCEPT !.info.tp_grid = s4.grid_size, !.info.tp_ledger = s4.positions],
             s4.positions, price, ts, P, idx, TakeProfit(s4.grid_size))

\* lines 222-274: the entry gate, then the entry loop
EntryGate(s5, chk, price, ts) ==
    IF ~chk.over /\ ~s5.forced
    THEN EntryLoop(chk.self, 1,
                   Len(SideOnly(chk.self.positions, "BUY")),
                   Len(SideOnly(chk.self.positions, "SELL")), price, ts)
    ELSE chk.self

EntryStep(s5, price, ts) ==
    IF Len(s5.positions) < max_positions /\ s5.size > 0
    THEN EntryGate(s5, check_daily_fee(s5, ts, 0), price, ts)
    ELSE s5

\* lines 276-285: equity mark, insolvency test, close on the final tick
FinalClose(s7) ==
    [s7 EXCEPT !.eq = <<s7.capital>>, !.info.final_close = TRUE]

EndOfTick(s6, eq, price, ts, idx) ==
    IF s6.capital < 0
    THEN [s6 EXCEPT !.eq = <<eq>>, !.ret = "none", !.info.forced = s6.forced]
    ELSE IF idx = n_ticks - 1 /\ s6.positions # <<>>
         THEN FinalClose(close_all_positions([s6 EXCEPT !.info.forced = s6.forced],
                                             price, ts))
         ELSE [s6 EXCEPT !.eq = <<eq>>, !.info.forced = s6.forced]

EquityStep(s6, price, ts, idx) ==
    EndOfTick(s6, s6.capital + Unrealized(s6.positions, price), price, ts, idx)

\* variant: the entry loop runs before the take-profit and max-loss loop
EvaluateFrom_entryfirst(s3, price, ts, P, idx) ==
    EquityStep(ExitStep(EntryStep(BreachStep(s3, PivotBreach(s3, price), price, ts, P, idx),
                                  price, ts),
                        price, ts, P, idx),
               price, ts, idx)

\* lines 161-285: the tick is evaluated
EvaluateFrom(s3, price, ts, P, idx) ==
    EquityStep(EntryStep(ExitStep(BreachStep(s3, PivotBreach(s3, price), price, ts, P, idx),
                                  price, ts, P, idx),
                         price, ts),
               price, ts, idx)

Evaluate(self, current_atr, price, ts, ps, idx) ==
    EvaluateFrom(GridInit(self, current_atr, PriceOf(ps), idx), price, ts, PriceOf(ps), idx)

\* lines 126-285 for the tick at index idx of the series ps
Iteration(self0, ps, idx) ==
    LET tick  == ps[idx + 1]
        price == tick.price
        ts    == <<tick.date, tick.time>>
        s1    == IF tick.date # self0.last_date
                 THEN [apply_overnight_fee(self0, ts) EXCEPT !.last_date = tick.date]
                 ELSE self0
        s2    == IF s1.daily_atr = None /\ is_trading_time(ts)
                 THEN LET data == daily_initial_data(ps, tick.date)
                      IN  [s1 EXCEPT !.daily_atr =
                              IF Len(data) >= 2
                              THEN calculate_atr(data, Len(data), default_last_valid_atr)
                              ELSE s1.last_valid_atr]
                 ELSE s1
        current_atr == IF s2.daily_atr # None /\ is_trading_time(ts)
                       THEN s2.daily_atr ELSE s2.last_valid_atr
    IN  IF tick.date = last_data_date /\ ts[2] >= trading_end /\ s2.positions # <<>>
        THEN LET c == close_all_positions(s2, price, ts)
             IN  [c EXCEPT !.eq = <<c.capital>>, !.info = NoInfo("liquidate")]
        ELSE IF ~is_trading_time(ts) /\ ~is_end_of_day(ts) /\ s2.positions # <<>>
        THEN [s2 EXCEPT !.info = NoInfo("skip")]
        ELSE IF ~is_trading_time(ts) \/ is_end_of_day(ts)
        THEN [s2 EXCEPT !.eq = <<s2.capital>>, !.info = NoInfo("mark")]
        ELSE Evaluate(s2, current_atr, price, ts, ps, idx)

(***************************************************************************)
(* calculate_performance_metrics                                           *)
(***************************************************************************)
Defined(eqs) == SelectSeq(eqs, LAMBDA e : e # <<>>)

DefinedIdx(eqs) == {k \in 1..Len(eqs) : eqs[k] # <<>>}

SetMin(S) == CHOOSE x \in S : \A y \in S : x <= y

SetMax(S) == CHOOSE x \in S : \A y \in S : x >= y

Minutes(tick) == tick.date * MinutesPerDay + tick.time

\* (equity.index[-1] - equity.index[0]).days
SpanDays(ps, eqs) ==
    (Minutes(ps[SetMax(DefinedIdx(eqs))]) - Minutes(ps[SetMin(DefinedIdx(eqs))]))
        \div MinutesPerDay

total_volume(tr) == SumSeq([k \in 1..Len(tr) |-> Abs(tr[k][4])])

\* equity.resample('D').last() at date d, an empty day taking the value before it
\* (pct_change pads): the last defined entry written on or before date d
DailyLast(ps, eqs, d) ==
    eqs[SetMax({k \in DefinedIdx(eqs) : ps[k].date <= d})][1]

\* e1 / e0 in lowest terms (1 + the daily return); a zero e0 gives an infinite value
Growth(e1, e0) ==
    IF e0 = 0 THEN <<(IF e1 > 0 THEN 1 ELSE IF e1 < 0 THEN 0 - 1 ELSE 0), 0>>
    ELSE <<(IF e0 < 0 THEN 0 - e1 ELSE e1) \div GCD(Abs(e1), Abs(e0)),
           Abs(e0) \div GCD(Abs(e1), Abs(e0))>>

\* equity.resample('D').last().pct_change().dropna(): one return per calendar day
\* after the first
daily_returns(ps, eqs) ==
    [d \in 1..(ps[SetMax(DefinedIdx(eqs))].date - ps[SetMin(DefinedIdx(eqs))].date) |->
        Growth(DailyLast(ps, eqs, ps[SetMin(DefinedIdx(eqs))].date + d),
               DailyLast(ps, eqs, ps[SetMin(DefinedIdx(eqs))].date + d - 1))]

\* daily_returns.std(): undefined below two returns, zero when they are all equal
sharpe_std(rets) ==
    IF Len(rets) < 2 \/ (\E k \in 1..Len(rets) : rets[k][2] = 0) THEN "nan"
    ELSE IF \A k \in 1..Len(rets) : rets[k] = rets[1] THEN "zero"
    ELSE "positive"

\* sqrt(252) * mean / std if std != 0 else 0: the literal zero, not-a-number, or a ratio
sharpe_ratio(rets) ==
    IF sharpe_std(rets) = "zero" THEN "zero"
    ELSE IF sharpe_std(rets) = "nan" THEN "nan"
    ELSE "ratio"

NoMetrics ==
    [final_capital |-> 0, days |-> 0, total_volume |-> 0, turnover_capital |-> 0,
     n_daily_returns |-> 0, sharpe_ratio |-> "none"]

(***************************************************************************)
(* Inputs: constructor arguments and price series                          *)
(***************************************************************************)
\* the defaults of __init__
DefaultCfg ==
    [capital |-> 500000000, contract_value |-> 100000, fee_per_trade |-> <<47, 100>>,
     grid_size_factor |-> <<147, 100>>, minimum_grid_size |-> <<2, 5>>,
     move_pivot |-> 6, max_loss |-> 20, take_profit_factor |-> <<1, 1>>]

\* a point of the optimisation ranges of driver.py
TunedCfg ==
    [DefaultCfg EXCEPT !.grid_size_factor = <<10, 1>>, !.move_pivot = 12,
                       !.take_profit_factor = <<2, 1>>]

\* an account that cannot absorb one fee
SmallCfg == [DefaultCfg EXCEPT !.capital = 2000]

\* fees large enough for two closures to pass the daily fee limit
HighFeeCfg == [DefaultCfg EXCEPT !.fee_per_trade = <<300, 1>>]

\* a grid finer than the price step of 0.1: spacing 0.05 for an ATR of 1.0
FineGridCfg ==
    [DefaultCfg EXCEPT !.grid_size_factor = <<1, 20>>, !.minimum_grid_size = <<1, 20>>]

\* bounds of the explored series
MaxTicksIntraday == 9

MaxTicksTuned == 7

MaxTicksSession == 4

MaxTicksFee == 8

MaxTicksWarm == 3

MaxTicksPremarket == 5

MaxTicksFine == 4

MaxTicksBand == 5

MaxTicksWide == 6

MaxDate == 3

FirstPrice == 12000

\* 08:50 (pre-market window), 09:00, 14:29, 15:00
Marks == {8 * 60 + 50, trading_start, trading_end, 15 * 60}

\* 09:00, 14:00, 14:29: inside trading hours
TradingMarks == {trading_start, 14 * 60, trading_end}

\* families of input series: configuration, first timestamps, price moves, clock
Families ==
    {[name |-> "intraday", cfg |-> DefaultCfg, starts |-> {trading_start},
      moves |-> {0 - 8, 8, 0 - 48}, clock |-> "step",
      max_ticks |-> MaxTicksIntraday, max_date |-> 1, warm |-> 0, marks |-> Marks],
     [name |-> "tuned", cfg |-> TunedCfg, starts |-> {trading_start},
      moves |-> {0 - 60, 60, 0 - 1000}, clock |-> "step",
      max_ticks |-> MaxTicksTuned, max_date |-> 1, warm |-> 0, marks |-> Marks],
     [name |-> "highfee", cfg |-> HighFeeCfg, starts |-> {trading_start},
      moves |-> {0 - 8, 8}, clock |-> "step",
      max_ticks |-> MaxTicksFee, max_date |-> 1, warm |-> 0, marks |-> Marks],
     \* short_atr_window quiet ticks (the price alternates by 0.3) come first
     [name |-> "warm", cfg |-> DefaultCfg, starts |-> {trading_start},
      moves |-> {0 - 96, 0 - 8, 8}, clock |-> "step",
      max_ticks |-> short_atr_window + MaxTicksWarm, max_date |-> 1,
      warm |-> short_atr_window, marks |-> Marks],
     [name |-> "session", cfg |-> DefaultCfg, starts |-> {8 * 60 + 50, trading_start},
      moves |-> {0 - 8, 8}, clock |-> "marks",
      max_ticks |-> MaxTicksSession, max_date |-> MaxDate, warm |-> 0, marks |-> Marks],
     [name |-> "small", cfg |-> SmallCfg, starts |-> {trading_start},
      moves |-> {0 - 8, 8}, clock |-> "marks",
      max_ticks |-> MaxTicksSession, max_date |-> MaxDate, warm |-> 0, marks |-> Marks],
     \* two dates with ticks in the 08:45-09:00 window
     [name |-> "premarket", cfg |-> DefaultCfg, starts |-> {8 * 60 + 50, trading_start},
      moves |-> {0 - 8, 8}, clock |-> "marks",
      max_ticks |-> MaxTicksPremarket, max_date |-> 2, warm |-> 0,
      marks |-> {8 * 60 + 50, trading_start, trading_end}],
     \* a constant price, trading-hours ticks only
     [name |-> "flat", cfg |-> DefaultCfg, starts |-> {trading_start, 14 * 60},
      moves |-> {0}, clock |-> "marks",
      max_ticks |-> MaxTicksSession, max_date |-> MaxDate, warm |-> 0,
      marks |-> TradingMarks],
     \* moves of one price step and jumps across the pivot band of a fine grid
     [name |-> "fine", cfg |-> FineGridCfg, starts |-> {trading_start},
      moves |-> {0 - 8, 0 - 1, 1}, clock |-> "marks",
      max_ticks |-> MaxTicksFine, max_date |-> 2, warm |-> 0,
      marks |-> {trading_start}],
     \* moves shorter than half a grid step next to moves longer than it
     [name |-> "band", cfg |-> DefaultCfg, starts |-> {trading_start},
      moves |-> {0 - 8, 0 - 3, 3}, clock |-> "step",
      max_ticks |-> MaxTicksBand, max_date |-> 1, warm |-> 0, marks |-> Marks],
     \* two pre-market ticks, then moves of up to 100 points: the grid reaches its cap
     [name |-> "wide", cfg |-> DefaultCfg, starts |-> {trading_start - 2},
      moves |-> {0 - 1000, 0 - 500, 0 - 60}, clock |-> "step",
      max_ticks |-> MaxTicksWide, max_date |-> 1, warm |-> 0, marks |-> Marks]}

\* the price moves that may follow the tick last read
NextMoves(fam, idx) ==
    IF idx < fam.warm THEN {IF idx % 2 = 1 THEN 3 ELSE 0 - 3} ELSE fam.moves

\* the timestamps that may follow the tick last read (strictly ascending);
\* the last tick of the series falls on last_data_date
NextStamps(fam, last) ==
    LET same  == {<<last.date, last.time + 1>>}
                 \cup (IF fam.clock = "marks"
                       THEN {<<last.date, m>> : m \in {x \in fam.marks : x > last.time}}
                       ELSE {})
        later == IF fam.clock = "marks"
                 THEN {<<last.date + 1, m>> : m \in fam.marks}
                 ELSE {}
        left  == n_ticks - 1 - Len(prices)
    IN  {st \in same \cup later :
            /\ st[2] < MinutesPerDay
            /\ st[1] <= last_data_date
            /\ last_data_date - st[1] <= left}

(***************************************************************************)
(* Actions                                                                 *)
(***************************************************************************)
\* DynamicGridBacktest.__init__
Init ==
    /\ family \in Families
    /\ cfg = family.cfg
    /\ prices = <<>>
    /\ n_ticks = 0
    /\ last_data_date = NoneInt
    /\ pc = "new"
    /\ i = 0
    /\ capital = cfg.capital
    /\ positions = <<>>
    /\ equity_series = <<>>
    /\ trades = <<>>
    /\ trade_history = <<>>
    /\ last_date = NoneInt
    /\ daily_fee = 0
    /\ last_valid_atr = initial_last_valid_atr
    /\ daily_atr = None
    /\ current_pivot = NoneInt
    /\ grid_size = None
    /\ size = 0
    /\ mid_positions = <<>>
    /\ tick_info = NoInfo("none")
    /\ probe = <<>>
    /\ metrics = NoMetrics
    /\ log_file = <<>>

\* variant: the log file is opened before the series is tested
BacktestEmpty_late ==
    /\ pc = "new"
    /\ pc' = "none"
    /\ log_file' = <<"header">>
    /\ UNCHANGED <<family, cfg, prices, n_ticks, last_data_date, i, capital, positions,
                   equity_series, trades, trade_history, last_date, daily_fee,
                   last_valid_atr, daily_atr, current_pivot, grid_size, size,
                   mid_positions, tick_info, probe, metrics>>

\* backtest(prices) with prices None or empty (lines 106-108)
BacktestEmpty ==
    /\ pc = "new"
    /\ pc' = "none"
    /\ UNCHANGED <<family, cfg, prices, n_ticks, last_data_date, i, capital, positions,
                   equity_series, trades, trade_history, last_date, daily_fee,
                   last_valid_atr, daily_atr, current_pivot, grid_size, size,
                   mid_positions, tick_info, probe, metrics, log_file>>

\* backtest(prices) with a non-empty series, up to the loop (lines 110-121)
BacktestStart ==
    /\ pc = "new"
    /\ \E n \in (family.warm + 1)..family.max_ticks, ldd \in 1..family.max_date, t0 \in family.starts :
          /\ ldd <= n
          /\ n_ticks' = n
          /\ last_data_date' = ldd
          /\ prices' = <<[date |-> 1, time |-> t0, price |-> FirstPrice]>>
          /\ last_date' = 1
    /\ equity_series' = <<<<capital>>>>
    /\ log_file' = <<"header">>
    /\ current_pivot' = FirstPrice
    /\ grid_size' = None
    /\ size' = 0
    /\ i' = 1
    /\ pc' = "loop"
    /\ UNCHANGED <<family, cfg, capital, positions, trades, trade_history, daily_fee,
                   last_valid_atr, daily_atr, mid_positions, tick_info, probe, metrics>>

Self ==
    [capital |-> capital, positions |-> positions, trades |-> trades,
     trade_history |-> trade_history, last_date |-> last_date, daily_fee |-> daily_fee,
     last_valid_atr |-> last_valid_atr, daily_atr |-> daily_atr,
     current_pivot |-> current_pivot, grid_size |-> grid_size, size |-> size,
     forced |-> FALSE, mid |-> <<>>, eq |-> <<>>, ret |-> "continue",
     info |-> NoInfo("none")]

\* one iteration of the loop of backtest (lines 122-285) on the next tick of the series
Tick ==
    /\ pc = "loop"
    /\ i < n_ticks
    /\ \E st \in NextStamps(family, prices[Len(prices)]), mv \in NextMoves(family, i) :
          LET tick == [date |-> st[1], time |-> st[2],
                       price |-> prices[Len(prices)].price + mv]
              ps   == Append(prices, tick)
          IN  \E r \in {Iteration(Self, ps, i)} :
              /\ tick.price > 0
              /\ prices' = ps
              /\ capital' = r.capital
              /\ positions' = r.positions
              /\ trades' = r.trades
              /\ trade_history' = r.trade_history
              /\ log_file' = log_file \o
                    [k \in 1..(Len(r.trade_history) - Len(trade_history)) |->
                        r.trade_history[Len(trade_history) + k].type]
              /\ last_date' = r.last_date
              /\ daily_fee' = r.daily_fee
              /\ last_valid_atr' = r.last_valid_atr
              /\ daily_atr' = r.daily_atr
              /\ current_pivot' = r.current_pivot
              /\ grid_size' = r.grid_size
              /\ size' = r.size
              /\ equity_series' = Append(equity_series, r.eq)
              /\ mid_positions' = r.mid
              /\ tick_info' = r.info
              /\ pc' = IF r.ret = "none" THEN "none" ELSE "loop"
    /\ i' = i + 1
    /\ UNCHANGED <<family, cfg, n_ticks, last_data_date, probe, metrics>>

\* end of the loop: return self.calculate_performance_metrics() (lines 287, 308-357)
Finish ==
    /\ pc = "loop"
    /\ i = n_ticks
    /\ IF Defined(equity_series) = <<>>
       THEN pc' = "none" /\ metrics' = metrics
       ELSE LET eq   == Defined(equity_series)
                days == SpanDays(prices, equity_series)
            IN  IF days = 0
                THEN pc' = "crash" /\ metrics' = metrics
                ELSE /\ pc' = "metrics"
                     /\ metrics' = [final_capital |-> eq[Len(eq)][1], days |-> days,
                                    total_volume |-> total_volume(trades),
                                    turnover_capital |-> capital,
                                    n_daily_returns |->
                                        Len(daily_returns(prices, equity_series)),
                                    sharpe_ratio |->
                                        sharpe_ratio(daily_returns(prices, equity_series))]
    /\ UNCHANGED <<family, cfg, prices, n_ticks, last_data_date, i, capital, positions,
                   equity_series, trades, trade_history, last_date, daily_fee,
                   last_valid_atr, daily_atr, current_pivot, grid_size, size,
                   mid_positions, tick_info, probe, log_file>>

Next == BacktestEmpty \/ BacktestStart \/ Tick \/ Finish

Spec == Init /\ [][Next]_vars

TypeOK ==
    /\ pc \in {"new", "loop", "metrics", "none", "crash"}
    /\ i \in 0..n_ticks
    /\ Len(equity_series) = Len(prices)

(***************************************************************************)
(* calculate_grid called directly on drawn arguments                       *)
(***************************************************************************)
MaxProbeExtra == 2

ProbeFamily ==
    [name |-> "probe", cfg |-> DefaultCfg, starts |-> {trading_start}, moves |-> {0},
     clock |-> "step", max_ticks |-> short_atr_window + MaxProbeExtra, max_date |-> 1,
     warm |-> 0, marks |-> Marks]

\* a series of the given length whose price alternates by amp
ZigZag(len, amp) ==
    [k \in 1..len |-> [date |-> 1, time |-> trading_start + k - 1,
                       price |-> FirstPrice + amp * (k % 2)]]

ProbeAtrs == {NaN, RInt(0), RInt(3), RInt(10), RInt(500)}

ProbeIndexes == {0, 1, short_atr_window - 1, short_atr_window,
                 short_atr_window + MaxProbeExtra}

InitGrid ==
    /\ family = ProbeFamily
    /\ cfg \in {DefaultCfg, TunedCfg}
    /\ \E idx \in ProbeIndexes, amp \in {0, 3, 80} :
          /\ prices = ZigZag(idx + 1, amp)
          /\ i = idx
          /\ n_ticks = idx + 1
    /\ last_data_date = 1
    /\ pc = "probe"
    /\ capital = cfg.capital
    /\ positions = <<>>
    /\ equity_series = <<>>
    /\ trades = <<>>
    /\ trade_history = <<>>
    /\ last_date = NoneInt
    /\ daily_fee = 0
    /\ last_valid_atr \in {initial_last_valid_atr, RInt(0), RInt(1000)}
    /\ daily_atr = None
    /\ current_pivot = NoneInt
    /\ grid_size = None
    /\ size = 0
    /\ mid_positions = <<>>
    /\ tick_info = NoInfo("none")
    /\ probe \in {[current_atr |-> a] : a \in ProbeAtrs}
    /\ metrics = NoMetrics
    /\ log_file = <<>>

\* grid_size, size = self.calculate_grid(current_price, current_atr, prices, index)
ProbeGrid ==
    /\ pc = "probe"
    /\ \E r \in {calculate_grid(Self, probe.current_atr, PriceOf(prices), i)} :
          /\ grid_size' = r.grid_size
          /\ size' = r.size
          /\ last_valid_atr' = r.last_valid_atr
    /\ pc' = "probed"
    /\ UNCHANGED <<family, cfg, prices, n_ticks, last_data_date, i, capital, positions,
                   equity_series, trades, trade_history, last_date, daily_fee,
                   daily_atr, current_pivot, mid_positions, tick_info, probe, metrics, log_file>>

SpecGrid == InitGrid /\ [][ProbeGrid]_vars

(***************************************************************************)
(* backtest called on an engine whose ledger was filled beforehand           *)
(***************************************************************************)
\* no fee per closure
ZeroFeeCfg == [DefaultCfg EXCEPT !.fee_per_trade = <<0, 1>>]

MaxTicksBreakout == 3

\* one trading day, quiet moves and jumps beyond move_pivot * grid_size
BreakoutFamilies ==
    {[name |-> "breakout", cfg |-> c, starts |-> {trading_start},
      moves |-> {0 - 96, 0 - 8, 8, 96}, clock |-> "step",
      max_ticks |-> MaxTicksBreakout, max_date |-> 1, warm |-> 0, marks |-> Marks] :
        c \in {DefaultCfg, ZeroFeeCfg}}

\* self.positions holding one BUY and one SELL, in either order
SeededLedgers ==
    UNION {{<<<<"BUY", b, 1>>, <<"SELL", s, 1>>>>, <<<<"SELL", s, 1>>, <<"BUY", b, 1>>>>} :
              b \in {FirstPrice - 8, FirstPrice - 16},
              s \in {FirstPrice + 8, FirstPrice + 16}}

\* DynamicGridBacktest.__init__, then positions assigned by the caller
InitBreakout ==
    /\ family \in BreakoutFamilies
    /\ cfg = family.cfg
    /\ prices = <<>>
    /\ n_ticks = 0
    /\ last_data_date = NoneInt
    /\ pc = "new"
    /\ i = 0
    /\ capital = cfg.capital
    /\ positions \in SeededLedgers
    /\ equity_series = <<>>
    /\ trades = <<>>
    /\ trade_history = <<>>
    /\ last_date = NoneInt
    /\ daily_fee = 0
    /\ last_valid_atr = initial_last_valid_atr
    /\ daily_atr = None
    /\ current_pivot = NoneInt
    /\ grid_size = None
    /\ size = 0
    /\ mid_positions = <<>>
    /\ tick_info = NoInfo("none")
    /\ probe = <<>>
    /\ metrics = NoMetrics
    /\ log_file = <<>>

SpecBreakout == InitBreakout /\ [][Next]_vars

(***************************************************************************)
(* calculate_atr called directly in window mode on drawn arguments         *)
(***************************************************************************)
MaxAtrLen == 4

MaxAtrWindow == 5

\* price series of up to MaxAtrLen ticks
AtrSeries ==
    UNION {[1..n -> {FirstPrice, FirstPrice + 8, FirstPrice - 3}] : n \in 0..MaxAtrLen}

InitAtr ==
    /\ family = ProbeFamily
    /\ cfg = DefaultCfg
    /\ prices = <<>>
    /\ n_ticks = 0
    /\ last_data_date = NoneInt
    /\ pc = "probe_atr"
    /\ i = 0
    /\ capital = cfg.capital
    /\ positions = <<>>
    /\ equity_series = <<>>
    /\ trades = <<>>
    /\ trade_history = <<>>
    /\ last_date = NoneInt
    /\ daily_fee = 0
    /\ last_valid_atr = initial_last_valid_atr
    /\ daily_atr = None
    /\ current_pivot = NoneInt
    /\ grid_size = None
    /\ size = 0
    /\ mid_positions = <<>>
    /\ tick_info = NoInfo("none")
    /\ probe \in {[series |-> ps, window |-> w, last_valid_atr |-> a, atr |-> None] :
                     ps \in AtrSeries, w \in 0..MaxAtrWindow,
                     a \in {RInt(10), RInt(0)}}
    /\ metrics = NoMetrics
    /\ log_file = <<>>

\* atr = calculate_atr(prices, window=w, last_valid_atr=a)
ProbeAtr ==
    /\ pc = "probe_atr"
    /\ probe' = [probe EXCEPT !.atr = calculate_atr(probe.series, probe.window,
                                                     probe.last_valid_atr)]
    /\ pc' = "probed_atr"
    /\ UNCHANGED <<family, cfg, prices, n_ticks, last_data_date, i, capital, positions,
                   equity_series, trades, trade_history, last_date, daily_fee,
                   last_valid_atr, daily_atr, current_pivot, grid_size, size,
                   mid_positions, tick_info, metrics, log_file>>

SpecAtr == InitAtr /\ [][ProbeAtr]_vars

(***************************************************************************)
(* Properties                                                              *)
(***************************************************************************)
LastTick == prices[Len(prices)]

NowTs == <<LastTick.date, LastTick.time>>

\* a loop iteration has run and its tick is the last one read
Ticked == pc \in {"loop", "none", "metrics", "crash"} /\ Len(prices) >= 2 /\ i >= 2

\* the trade records written at timestamp ts
RecordsAt(ts) == SelectSeq(trade_history, LAMBDA r : r.ts = ts)

HasType(recs, type) == \E k \in 1..Len(recs) : recs[k].type = type

CountSide(pos, side) == Cardinality({k \in 1..Len(pos) : pos[k][1] = side})

TotalSize(pos) == SumSeq([k \in 1..Len(pos) |-> pos[k][3]])

\* C1 as stated: for every non-empty, time-ascending series, after backtest the
\* equity curve holds one defined entry per input tick and starts at the initial capital.
C1_Original ==
    pc = "metrics" =>
        /\ Len(equity_series) = n_ticks
        /\ \A k \in 1..Len(equity_series) : equity_series[k] # <<>>
        /\ equity_series[1] = <<cfg.capital>>

\* C1 amended: the equity curve has one slot per tick read and starts at the initial
\* capital; the slot of a processed tick holds a value unless the tick is off-hours
\* (outside 09:00-14:30) while positions are open, in which case it is left undefined.
C1_EquitySlots ==
    (prices # <<>> /\ pc # "new") =>
        /\ Len(equity_series) = Len(prices)
        /\ equity_series[1] = <<cfg.capital>>
        /\ Ticked =>
              (equity_series[Len(equity_series)] = <<>>
                  <=> /\ (LastTick.time < 9 * 60 \/ LastTick.time > 14 * 60 + 30)
                      /\ positions # <<>>)

C1_Witness ==
    /\ pc = "metrics"
    /\ \E k \in 1..Len(equity_series) : equity_series[k] = <<>>
    /\ equity_series[Len(equity_series)] # <<>>

\* C2: in every reachable state, also inside the entry loop of a tick, the ledger
\* holds at most 12 positions, at most 6 BUY, at most 6 SELL, and at most 12 contracts.
C2_LedgerOK(pos) ==
    /\ Len(pos) <= 12
    /\ CountSide(pos, "BUY") <= 6
    /\ CountSide(pos, "SELL") <= 6
    /\ TotalSize(pos) <= 12

C2_LedgerCaps ==
    /\ C2_LedgerOK(positions)
    /\ \A k \in 1..Len(mid_positions) : C2_LedgerOK(mid_positions[k])

\* six BUY positions are open and a tick below all of them opened no seventh
C2_Witness ==
    /\ Ticked
    /\ tick_info.path = "eval"
    /\ CountSide(positions, "BUY") = 6
    /\ mid_positions = <<>>
    /\ \A k \in 1..Len(positions) : positions[k][2] - LastTick.price >= 8

\* the tick price lies strictly outside [pivot - move_pivot*g, pivot + move_pivot*g]
OutsideBand(price, pivot, g) ==
    \/ price * g[2] < pivot * g[2] - cfg.move_pivot * g[1]
    \/ price * g[2] > pivot * g[2] + cfg.move_pivot * g[1]

\* the pivot the last tick was evaluated against is no longer the pivot
Rebased == current_pivot # tick_info.band_pivot

\* the adverse move of the tick price against a position, in VND
AdverseVnd(pos, price) ==
    (IF pos[1] = "BUY" THEN pos[2] - price ELSE price - pos[2]) * pos[3] * 10000

\* C3 as stated: on an evaluated trading tick the pivot is rebased iff the price lies
\* strictly outside the pivot band; after a rebase the pivot is the price and the
\* ledger is empty.
C3_Original ==
    (Ticked /\ tick_info.path = "eval") =>
        /\ Rebased <=> OutsideBand(LastTick.price, tick_info.band_pivot, tick_info.band_grid)
        /\ Rebased => (current_pivot = LastTick.price /\ positions = <<>>)

\* C3 amended: the pivot is rebased iff the price lies strictly outside the pivot band
\* or the max-loss check finds a position whose loss is at least 500,000 * max_loss;
\* after a rebase the pivot is the price and the ledger is empty.
C3_Rebase ==
    (Ticked /\ tick_info.path = "eval") =>
        /\ Rebased <=>
              \/ OutsideBand(LastTick.price, tick_info.band_pivot, tick_info.band_grid)
              \/ \E k \in 1..Len(tick_info.tp_ledger) :
                    AdverseVnd(tick_info.tp_ledger[k], LastTick.price)
                        >= 500000 * cfg.max_loss
        /\ Rebased => (current_pivot = LastTick.price /\ positions = <<>>)

\* a breach closed open positions and moved the pivot to the price
C3_Witness ==
    /\ Ticked
    /\ tick_info.path = "eval"
    /\ OutsideBand(LastTick.price, tick_info.band_pivot, tick_info.band_grid)
    /\ HasType(RecordsAt(NowTs), "CLOSE_BUY")
    /\ current_pivot = LastTick.price
    /\ positions = <<>>

\* gross profit of a position at a price, in VND
GrossVnd(pos, price) ==
    (IF pos[1] = "BUY" THEN price - pos[2] ELSE pos[2] - price) * pos[3] * 10000

\* a take-profit record of the position was written at the last tick
TakeProfitRecord(pos) ==
    \E k \in 1..Len(trade_history) :
        /\ trade_history[k].ts = NowTs
        /\ trade_history[k].type = (IF pos[1] = "BUY" THEN "TAKE_PROFIT_BUY"
                                    ELSE "TAKE_PROFIT_SELL")
        /\ trade_history[k].price = LastTick.price
        /\ trade_history[k].size = pos[3]
        /\ trade_history[k].fee = Fee
        /\ trade_history[k].profit = GrossVnd(pos, LastTick.price) - Fee

\* profit >= take_profit_factor * grid_size * contract_value, both sides divided by the
\* value of a tenth of a point (the price difference and g are in tenths of a point)
ReachesTakeProfit(pos, price, g) ==
    (IF pos[1] = "BUY" THEN price - pos[2] ELSE pos[2] - price) * pos[3]
            * cfg.take_profit_factor[2] * g[2]
        >= cfg.take_profit_factor[1] * g[1]

\* C4: on an evaluated trading tick a position open when the take-profit check runs is
\* closed by a fee-adjusted take-profit record iff its unrealized profit is at least
\* take_profit_factor * grid_size * contract_value, for the grid_size then in effect.
C4_TakeProfit ==
    (Ticked /\ tick_info.path = "eval") =>
        \A k \in 1..Len(tick_info.tp_ledger) :
            LET pos == tick_info.tp_ledger[k]
            IN  /\ TakeProfitRecord(pos)
                      <=> ReachesTakeProfit(pos, LastTick.price, tick_info.tp_grid)
                /\ TakeProfitRecord(pos) => ~Contains(positions, pos)

\* one position was closed by take-profit while another stayed open
C4_Witness ==
    /\ Ticked
    /\ tick_info.path = "eval"
    /\ Len(tick_info.tp_ledger) >= 2
    /\ \E k \in 1..Len(tick_info.tp_ledger) : TakeProfitRecord(tick_info.tp_ledger[k])
    /\ \E k \in 1..Len(tick_info.tp_ledger) :
          /\ ~TakeProfitRecord(tick_info.tp_ledger[k])
          /\ Contains(positions, tick_info.tp_ledger[k])

\* what a trade record adds to realized capital
CapitalDelta(r) == r.profit - (IF r.type = "OVERNIGHT_FEE" THEN r.fee ELSE 0)

\* realized capital after the first k trade records
CapitalAfter(k) ==
    cfg.capital + SumSeq([j \in 1..k |-> CapitalDelta(trade_history[j])])

\* C5 as stated: no Metrics bundle is returned by a run in which realized capital was
\* negative at some point (after an overnight fee, a take-profit, a pairing, a forced
\* close-all, the terminal liquidation or the final-tick liquidation).
C5_Original ==
    pc = "metrics" => \A k \in 0..Len(trade_history) : CapitalAfter(k) >= 0

\* C6: at a tick whose date differs from the previous tick's date the overnight fee is
\* charged exactly once, as the first record of the tick, and equals 2,550 times the
\* number of positions then open (no record when the ledger is empty); no overnight
\* fee is charged at a tick of the same date; the tracked date is the tick's date.
C6_Step ==
    (Len(prices) >= 1 /\ Len(prices') = Len(prices) + 1) =>
        LET prev == prices[Len(prices)]
            cur  == prices'[Len(prices')]
            new  == SubSeq(trade_history', Len(trade_history) + 1, Len(trade_history'))
            fees == SelectSeq(new, LAMBDA r : r.type = "OVERNIGHT_FEE")
        IN  /\ last_date' = cur.date
            /\ IF cur.date # prev.date /\ positions # <<>>
               THEN /\ Len(fees) = 1
                    /\ new[1] = [ts |-> <<cur.date, cur.time>>, type |-> "OVERNIGHT_FEE",
                                 price |-> 0, size |-> Len(positions), profit |-> 0,
                                 fee |-> 2550 * Len(positions)]
               ELSE Len(fees) = 0
            /\ capital' = capital + SumSeq([k \in 1..Len(new) |-> CapitalDelta(new[k])])

C6_OvernightFee == [][C6_Step]_vars

\* two positions were carried into a new date and charged
C6_Witness ==
    /\ Ticked
    /\ \E k \in 1..Len(trade_history) :
          /\ trade_history[k].type = "OVERNIGHT_FEE"
          /\ trade_history[k].ts = NowTs
          /\ trade_history[k].size = 2
          /\ trade_history[k].fee = 5100
    /\ capital = cfg.capital - 5100

\* fees of closures (take-profit, pairing, forced close) recorded on the date of record
\* k at ticks before the tick of record k
FeesPaidBefore(k) ==
    SumSeq([j \in 1..k |->
        IF /\ trade_history[j].ts[1] = trade_history[k].ts[1]
           /\ trade_history[j].ts # trade_history[k].ts
           /\ trade_history[j].type \in {"TAKE_PROFIT_BUY", "TAKE_PROFIT_SELL",
                                         "CLOSE_PAIR", "CLOSE_BUY", "CLOSE_SELL"}
        THEN trade_history[j].fee ELSE 0])

\* C7 as stated, the accumulator being the running total of the fees paid on the date:
\* once it exceeds daily_fee_limit no BUY or SELL entry is opened on a later tick of
\* that date.
C7_Original ==
    \A k \in 1..Len(trade_history) :
        trade_history[k].type \in {"BUY", "SELL"} => FeesPaidBefore(k) <= 50000000

\* C8: after grid initialization and after every recomputation, grid_size lies between
\* minimum_grid_size and 10 index points, for every ATR input (an undefined one
\* included) and every tick index, below and above the short window of 60 ticks.
C8_GridBounds ==
    grid_size # None =>
        /\ cfg.minimum_grid_size[1] * 10 * grid_size[2]
              <= grid_size[1] * cfg.minimum_grid_size[2]
        /\ grid_size[1] <= 100 * grid_size[2]

\* an undefined ATR at an index past the short window, the grid reaching the ceiling
C8_Witness ==
    /\ pc = "probed"
    /\ IsNaN(probe.current_atr)
    /\ i > 60
    /\ grid_size = <<100, 1>>

\* C9 as stated: for every run that returns Metrics, final_capital minus the initial
\* capital equals the sum of the realized profits of the trade log less the fees of its
\* OVERNIGHT_FEE records.
C9_Original ==
    pc = "metrics" =>
        metrics.final_capital - cfg.capital
            = SumSeq([k \in 1..Len(trade_history) |-> CapitalDelta(trade_history[k])])

\* C10 as stated: a run on a non-empty, time-ascending series ends with a Metrics
\* bundle or with the failure result, never with a raised error.
C10_Original == pc \notin {"new", "loop"} => pc \in {"metrics", "none"}

\* C11 as stated: positions still open when the last tick of the series is processed
\* are force-closed on that tick, so a run that returns Metrics ends with an empty
\* ledger, whatever the time of day of the last tick.
C11_Original == pc = "metrics" => positions = <<>>

\* the ledger holds exactly one BUY and one SELL
OneEachSide(pos) ==
    Len(pos) = 2 /\ CountSide(pos, "BUY") = 1 /\ CountSide(pos, "SELL") = 1

\* the records the step appended to the trade history
NewRecords == SubSeq(trade_history', Len(trade_history) + 1, Len(trade_history'))

\* the force-close records among them
NewClosures ==
    SelectSeq(NewRecords, LAMBDA r : r.type \in {"CLOSE_BUY", "CLOSE_SELL", "TOTAL_FEE"})

\* the step evaluates a trading tick whose price lies outside the pivot band while one
\* BUY and one SELL are open
BreakoutStep ==
    /\ Len(prices) >= 1 /\ Len(prices') = Len(prices) + 1
    /\ OneEachSide(positions)
    /\ tick_info'.path = "eval"
    /\ OutsideBand(prices'[Len(prices')].price, tick_info'.band_pivot, tick_info'.band_grid)

\* both positions are closed at the tick's price and timestamp and the pivot moves
BreakoutCloses ==
    LET cur == prices'[Len(prices')]
    IN  /\ positions' = <<>>
        /\ current_pivot' = cur.price
        /\ Len(NewClosures) >= 2
        /\ {NewClosures[1].type, NewClosures[2].type} = {"CLOSE_BUY", "CLOSE_SELL"}
        /\ \A k \in 1..Len(NewClosures) :
              /\ NewClosures[k].ts = <<cur.date, cur.time>>
              /\ NewClosures[k].price = cur.price

FlatSeries ==
    /\ pc \notin {"new", "loop", "probe", "probed"}
    /\ Len(prices) >= 1
    /\ Len(prices) = n_ticks
    /\ \A k \in 1..Len(prices) :
          /\ prices[k].price = prices[1].price
          /\ 9 * 60 <= prices[k].time /\ prices[k].time <= 14 * 60 + 29
    /\ (prices[Len(prices)].date * 1440 + prices[Len(prices)].time)
          - (prices[1].date * 1440 + prices[1].time) >= 1440

\* C13 as stated: for a flat series of trading-hours ticks spanning more than one day
\* no BUY or SELL is recorded, every equity entry is the initial capital, the run
\* returns Metrics, and the Sharpe ratio is 0, also over exactly two calendar days.
C13_Original ==
    FlatSeries =>
        /\ \A k \in 1..Len(trade_history) : trade_history[k].type \notin {"BUY", "SELL"}
        /\ \A k \in 1..Len(equity_series) : equity_series[k] = <<cfg.capital>>
        /\ pc = "metrics"
        /\ metrics.sharpe_ratio = "zero"

\* C14: backtest on an empty or absent series returns the failure result with no
\* Metrics and leaves the engine as constructed: ledger, capital, pivot, trade list and
\* trade history untouched, no equity curve created, the trade log not written.
C14_EmptyInput ==
    (n_ticks = 0 /\ pc # "new") =>
        /\ pc = "none"
        /\ metrics = NoMetrics
        /\ positions = <<>>
        /\ capital = cfg.capital
        /\ current_pivot = 0 - 1
        /\ trades = <<>>
        /\ trade_history = <<>>
        /\ equity_series = <<>>
        /\ log_file = <<>>

\* backtest has returned on an empty series
C14_Witness == n_ticks = 0 /\ prices = <<>> /\ pc = "none"

\* C15 as stated: the reported turnover_ratio is total entry volume * contract_value
\* / initial capital * 100: whenever some volume was traded, the capital it is divided
\* by is the capital the run started with.
C15_Original ==
    pc = "metrics" =>
        (metrics.total_volume = 0 \/ metrics.turnover_capital = cfg.capital)

\* unrealized P&L of the open positions at the price of the last tick, in VND
OpenPnlVnd == SumSeq([k \in 1..Len(positions) |-> GrossVnd(positions[k], LastTick.price)])

\* the last tick wrote an equity entry
EquityWritten == Ticked /\ equity_series[Len(equity_series)] # <<>>

\* C16 as stated: every equity entry written equals realized capital plus the
\* unrealized P&L of all positions open at that tick, at that tick's price, also for
\* entries written in the end-of-day window while positions are open.
C16_Original ==
    EquityWritten => equity_series[Len(equity_series)][1] = capital + OpenPnlVnd

\* C16 amended: an equity entry equals realized capital plus the unrealized P&L of the
\* positions open at the end of that tick, except at a tick of the end-of-day window
\* [14:29, 14:30] that leaves positions open, where it is the realized capital alone.
C16_EquityMark ==
    EquityWritten =>
        equity_series[Len(equity_series)][1]
            = IF LastTick.time \in (14 * 60 + 29)..(14 * 60 + 30) /\ positions # <<>>
              THEN capital
              ELSE capital + OpenPnlVnd

\* an evaluated tick marked two open SELL positions, one in profit and one at its entry
C16_Witness ==
    /\ EquityWritten
    /\ tick_info.path = "eval"
    /\ Len(positions) = 2
    /\ positions[1][1] = "SELL"
    /\ OpenPnlVnd # 0
    /\ equity_series[Len(equity_series)][1] = capital + OpenPnlVnd

\* fees of the closures (forced close, take-profit, pairing) recorded so far on the
\* date of the last tick
FeesPaidToday ==
    SumSeq([k \in 1..Len(trade_history) |->
        IF /\ trade_history[k].ts[1] = LastTick.date
           /\ trade_history[k].type \in {"TAKE_PROFIT_BUY", "TAKE_PROFIT_SELL",
                                         "CLOSE_PAIR", "CLOSE_BUY", "CLOSE_SELL"}
        THEN trade_history[k].fee ELSE 0])

\* C17 as stated: after every tick the fee accumulator equals the sum of the close,
\* take-profit and pairing fees paid so far on the current date (zero again after a
\* date rollover).
C17_Original == Ticked => daily_fee = FeesPaidToday

\* the prices of the ticks of the 08:45-09:00 window of the date of the last tick
WindowToday ==
    SelectSeq(prices, LAMBDA r : /\ r.date = LastTick.date
                                 /\ 8 * 60 + 45 <= r.time /\ r.time < 9 * 60)

\* mean of |price difference| over a window of at least two ticks, in tenths
MeanAbsDiff(w) ==
    Rat(SumSeq([k \in 1..(Len(w) - 1) |-> Abs(w[k + 1].price - w[k].price)]), Len(w) - 1)

\* C18 as stated, for a date whose 08:45-09:00 window holds at least two ticks: once
\* a trading-time tick of that date has been processed, the daily ATR is the value
\* derived from that date's window, not a value derived on an earlier date.
C18_Original ==
    (/\ Ticked
     /\ 9 * 60 <= LastTick.time /\ LastTick.time <= 14 * 60 + 29
     /\ Len(WindowToday) >= 2)
        => daily_atr = MeanAbsDiff(WindowToday)

\* the step processes a tick of the end-of-day window [14:29, 14:30] while positions
\* are open
EndOfDayStep ==
    /\ Len(prices) >= 1 /\ Len(prices') = Len(prices) + 1
    /\ positions # <<>>
    /\ prices'[Len(prices')].time \in (14 * 60 + 29)..(14 * 60 + 30)

\* every open position is closed at the tick: one CLOSE_* record each
AllForceClosed ==
    /\ positions' = <<>>
    /\ Len(SelectSeq(NewRecords, LAMBDA r : r.type \in {"CLOSE_BUY", "CLOSE_SELL"}))
          = Len(positions)

\* C19 as stated: whenever a tick with time in [14:29, 14:30] is processed while
\* positions are open, on any date of the series, all positions are force-closed at
\* that tick.
C19_Original == [][EndOfDayStep => AllForceClosed]_vars

\* C19 amended: a tick with time in [14:29, 14:30] processed while positions are open
\* force-closes all of them when its date is the last date of the series; on an
\* earlier date it closes nothing and the positions are carried over.
C19_Liquidation ==
    [][EndOfDayStep =>
          IF prices'[Len(prices')].date = last_data_date
          THEN AllForceClosed
          ELSE positions' = positions /\ NewClosures = <<>>]_vars

\* two positions were liquidated at 14:29 of the last date
C19_Witness ==
    /\ Ticked
    /\ tick_info.path = "liquidate"
    /\ LastTick.time = 14 * 60 + 29
    /\ LastTick.date = last_data_date
    /\ Len(RecordsAt(NowTs)) = 3
    /\ RecordsAt(NowTs)[3].type = "TOTAL_FEE"
    /\ positions = <<>>

EntryTypes == {"BUY", "SELL", "CLOSE_PAIR"}

ExitTypes == {"TAKE_PROFIT_BUY", "TAKE_PROFIT_SELL", "CLOSE_BUY", "CLOSE_SELL", "TOTAL_FEE"}

\* record k is an exit record written after an entry record of the same timestamp
ExitAfterEntry(k) ==
    /\ trade_history[k].type \in ExitTypes
    /\ \E j \in 1..(k - 1) :
          /\ trade_history[j].ts = trade_history[k].ts
          /\ trade_history[j].type \in EntryTypes

\* C20 as stated: among the trade records of one timestamp every TAKE_PROFIT_* and
\* every force-close record (CLOSE_BUY, CLOSE_SELL, TOTAL_FEE) comes before every BUY,
\* SELL and CLOSE_PAIR record.
C20_Original == \A k \in 1..Len(trade_history) : ~ExitAfterEntry(k)

\* C20 amended: among the trade records of one timestamp every TAKE_PROFIT_* record
\* comes before every BUY, SELL and CLOSE_PAIR record, and so does every force-close
\* record, except the records of the liquidation of the final tick of the series,
\* which follow the entries of that tick.
C20_ExitsFirst ==
    \A k \in 1..Len(trade_history) :
        ExitAfterEntry(k) =>
            /\ trade_history[k].type \in {"CLOSE_BUY", "CLOSE_SELL", "TOTAL_FEE"}
            /\ Len(prices) = n_ticks
            /\ trade_history[k].ts = NowTs
            /\ positions = <<>>

\* the final tick took a profit, opened a SELL, then liquidated it
C20_Witness ==
    /\ Ticked
    /\ Len(prices) = n_ticks
    /\ [k \in 1..Len(RecordsAt(NowTs)) |-> RecordsAt(NowTs)[k].type]
          = <<"TAKE_PROFIT_BUY", "SELL", "CLOSE_SELL", "TOTAL_FEE">>

\* the trade records of the last tick, the overnight fee of a date rollover left out
TickEvents == SelectSeq(RecordsAt(NowTs), LAMBDA r : r.type # "OVERNIGHT_FEE")

\* the last tick was evaluated and its price lay outside the pivot band
BreachTick == Ticked /\ tick_info.path = "eval" /\ tick_info.breach

\* C21 as stated: on a tick where a pivot breach occurs the only trade records are the
\* CLOSE_BUY, CLOSE_SELL and TOTAL_FEE records of the forced liquidation (no
\* take-profit, max-loss or entry record) and the ledger is empty at the end of the
\* tick, for every grid_size, the smallest ones included.
C21_Original ==
    BreachTick =>
        /\ \A k \in 1..Len(TickEvents) :
              TickEvents[k].type \in {"CLOSE_BUY", "CLOSE_SELL", "TOTAL_FEE"}
        /\ positions = <<>>

\* a position open when the exit loop of the last tick started stands at a loss of at
\* least 500,000 * max_loss at the tick price
MaxLossTick ==
    /\ Ticked
    /\ tick_info.path = "eval"
    /\ \E k \in 1..Len(tick_info.tp_ledger) :
          AdverseVnd(tick_info.tp_ledger[k], LastTick.price) >= 500000 * cfg.max_loss

\* min(max(grid_size_factor * atr, minimum_grid_size), 10), in tenths of a point
ClampedGrid(atr) ==
    RMin(RMax(RMul(cfg.grid_size_factor, atr), RMul(cfg.minimum_grid_size, RInt(10))),
         RInt(100))

\* record k of the last tick is a force-close record
IsClose(k) == TickEvents[k].type \in {"CLOSE_BUY", "CLOSE_SELL"}

\* C22: on a tick where the max-loss check finds a position whose unrealized loss is at
\* least 500,000 * max_loss, all positions are force-closed, the pivot becomes the tick
\* price, grid_size is recomputed from the ATR, no position is evaluated after the
\* closure and no entry is opened, so the ledger is empty at the end of the tick.
C22_MaxLoss ==
    MaxLossTick =>
        /\ positions = <<>>
        /\ current_pivot = LastTick.price
        /\ grid_size = ClampedGrid(last_valid_atr)
        /\ mid_positions = <<>>
        /\ \A k \in 1..Len(TickEvents) :
              /\ TickEvents[k].type \in {"TAKE_PROFIT_BUY", "TAKE_PROFIT_SELL",
                                         "CLOSE_BUY", "CLOSE_SELL", "TOTAL_FEE"}
              /\ TickEvents[k].type \in {"TAKE_PROFIT_BUY", "TAKE_PROFIT_SELL"}
                    => \A j \in 1..(k - 1) : ~IsClose(j)
        /\ Cardinality({k \in 1..Len(TickEvents) : TickEvents[k].type # "TOTAL_FEE"})
              = Len(tick_info.tp_ledger)
        /\ \E k \in 1..Len(TickEvents) : IsClose(k)

\* inside the pivot band the older of two BUY positions reached the loss limit and
\* both were closed
C22_Witness ==
    /\ MaxLossTick
    /\ ~tick_info.breach
    /\ Len(tick_info.tp_ledger) = 2
    /\ [k \in 1..Len(TickEvents) |-> TickEvents[k].type]
          = <<"CLOSE_BUY", "CLOSE_BUY", "TOTAL_FEE">>
    /\ positions = <<>>
    /\ current_pivot = LastTick.price

\* any two positions of one side lie at least half a grid step apart
BandApart(pos, g) ==
    \A j, k \in 1..Len(pos) :
        (j < k /\ pos[j][1] = pos[k][1]) =>
            2 * Abs(pos[j][2] - pos[k][2]) * g[2] >= g[1]

\* no two entries of the ledger are the same (side, price, size) tuple
AllDistinct(pos) == \A j, k \in 1..Len(pos) : j < k => pos[j] # pos[k]

\* C23: in every reachable state, also inside the entry loop of a tick, any two open
\* positions of the same side have entry prices at least 0.5 * grid_size apart, for the
\* grid_size in effect; hence no two open positions are the same (side, price, size).
C23_Band ==
    /\ positions # <<>> => grid_size # <<>>
    /\ grid_size # <<>> =>
          /\ BandApart(positions, grid_size)
          /\ AllDistinct(positions)
          /\ \A m \in 1..Len(mid_positions) :
                BandApart(mid_positions[m], grid_size) /\ AllDistinct(mid_positions[m])

\* below the first buy level the price fell by less than half a grid step under the
\* newer of two open BUY positions, and no further BUY was opened
C23_Witness ==
    /\ Ticked
    /\ tick_info.path = "eval"
    /\ Len(positions) = 2
    /\ positions[1][1] = "BUY" /\ positions[2][1] = "BUY"
    /\ 0 < positions[2][2] - LastTick.price
    /\ 2 * (positions[2][2] - LastTick.price) * grid_size[2] < grid_size[1]
    /\ 2 * LastTick.price * grid_size[2] <= 2 * current_pivot * grid_size[2] - grid_size[1]
    /\ mid_positions = <<>>
    /\ RecordsAt(NowTs) = <<>>

\* the step runs one iteration of the loop of backtest
TickStep == Len(prices) >= 1 /\ Len(prices') = Len(prices) + 1

\* the indexes of the BUY and SELL records the step appended
EntryIdx == {k \in 1..Len(NewRecords) : NewRecords[k].type \in {"BUY", "SELL"}}

\* the ledger right after the append that wrote the entry record k of the step
LedgerAtEntry(k) == mid_positions'[Cardinality({j \in EntryIdx : j <= k})]

Front(s) == SubSeq(s, 1, Len(s) - 1)

\* the positions of the other side that were open when the entry of record k was made
OppositeAtEntry(k) ==
    SelectSeq(Front(LedgerAtEntry(k)),
              LAMBDA p : p[1] # LedgerAtEntry(k)[Len(LedgerAtEntry(k))][1])

\* the ledger the step of record k left behind is the given one: it is the ledger the
\* next entry was appended to or, after the last entry, the ledger at the end of the
\* tick (unless the final tick of the series closed it)
LedgerAfterEntryIs(k, ledger) ==
    IF Cardinality({j \in EntryIdx : j <= k}) < Len(mid_positions')
    THEN Front(mid_positions'[Cardinality({j \in EntryIdx : j <= k}) + 1]) = ledger
    ELSE tick_info'.final_close \/ positions' = ledger

\* the entry of record k is netted against the oldest opposite position
PairedAt(k) ==
    /\ k + 1 <= Len(NewRecords)
    /\ NewRecords[k + 1]
          = [ts |-> NewRecords[k].ts, type |-> "CLOSE_PAIR", price |-> NewRecords[k].price,
             size |-> NewRecords[k].size,
             profit |-> GrossVnd(OppositeAtEntry(k)[1], NewRecords[k].price)
                            - (cfg.fee_per_trade[1] * cfg.contract_value)
                                  \div cfg.fee_per_trade[2],
             fee |-> (cfg.fee_per_trade[1] * cfg.contract_value) \div cfg.fee_per_trade[2]]
    /\ (k + 2 <= Len(NewRecords) => NewRecords[k + 2].type # "CLOSE_PAIR")
    /\ LedgerAfterEntryIs(k, Remove(Front(LedgerAtEntry(k)), OppositeAtEntry(k)[1]))

\* the entry of record k stays in the ledger and nothing is netted
KeptAt(k) ==
    /\ (k + 1 <= Len(NewRecords) => NewRecords[k + 1].type # "CLOSE_PAIR")
    /\ LedgerAfterEntryIs(k, LedgerAtEntry(k))

\* C24: whenever a position is opened while a position of the opposite side is open, in
\* the same step the oldest opposite position and the new one are both removed, exactly
\* one CLOSE_PAIR record follows the BUY or SELL record, capital changes by the price
\* differential of the old position at the tick price * size * contract_value less one
\* fee, and the other positions are untouched; an entry with no opposite position open
\* is not netted.
C24_Pairing ==
    [][TickStep =>
          /\ Len(mid_positions') = Cardinality(EntryIdx)
          /\ \A k \in EntryIdx :
                IF OppositeAtEntry(k) # <<>> THEN PairedAt(k) ELSE KeptAt(k)
          /\ \A k \in 1..Len(NewRecords) :
                NewRecords[k].type = "CLOSE_PAIR" => (k - 1) \in EntryIdx
          /\ capital' = capital + SumSeq([k \in 1..Len(NewRecords) |->
                                            CapitalDelta(NewRecords[k])])]_vars

\* a BUY opened under two open SELL positions was netted against the older one, at a
\* gain, and the newer SELL stayed open
C24_Witness ==
    /\ Ticked
    /\ Len(prices) < n_ticks
    /\ Len(mid_positions) = 1
    /\ Len(mid_positions[1]) = 3
    /\ mid_positions[1][1][1] = "SELL" /\ mid_positions[1][2][1] = "SELL"
    /\ mid_positions[1][3] = <<"BUY", LastTick.price, 1>>
    /\ positions = <<mid_positions[1][2]>>
    /\ Len(TickEvents) = 2
    /\ TickEvents[2].type = "CLOSE_PAIR"
    /\ TickEvents[2].profit = (mid_positions[1][1][2] - LastTick.price) * 10000 - Fee
    /\ TickEvents[2].profit > 0

\* the tick the step processes
StepTick == prices'[Len(prices')]

\* the step processes a tick that is off-hours or in the end-of-day window
\* [14:29, 14:30], and that is not the liquidation tick of the last date
GatedStep ==
    /\ TickStep
    /\ (StepTick.time < 9 * 60 \/ StepTick.time >= 14 * 60 + 29)
    /\ ~(/\ StepTick.date = last_data_date
          /\ StepTick.time >= 14 * 60 + 29
          /\ positions # <<>>)

\* 2,550 per open position when the tick opens a new date
RolloverFee ==
    IF StepTick.date # prices[Len(prices)].date THEN 2550 * Len(positions) ELSE 0

\* C25: a tick that is off-hours or in the end-of-day window [14:29, 14:30], 14:29
\* included, and that is not the liquidation tick of the last date, opens and closes no
\* position, leaves pivot and grid_size unchanged and changes capital by the overnight
\* fee of a date rollover at most; its equity entry is written, as the current capital,
\* exactly when the tick is in the end-of-day window or the ledger is empty.
C25_SessionGating ==
    [][GatedStep =>
          /\ positions' = positions
          /\ trades' = trades
          /\ current_pivot' = current_pivot
          /\ grid_size' = grid_size
          /\ capital' = capital - RolloverFee
          /\ \A k \in 1..Len(NewRecords) : NewRecords[k].type = "OVERNIGHT_FEE"
          /\ equity_series'[Len(equity_series')]
                = IF StepTick.time \in (14 * 60 + 29)..(14 * 60 + 30) \/ positions = <<>>
                  THEN <<capital'>>
                  ELSE <<>>]_vars

\* at 14:29 of a date before the last one, below the first buy level and away from the
\* open positions, nothing was opened or closed and equity was marked at capital
C25_Witness ==
    /\ Ticked
    /\ LastTick.time = 14 * 60 + 29
    /\ LastTick.date < last_data_date
    /\ positions # <<>>
    /\ grid_size # <<>>
    /\ 2 * LastTick.price * grid_size[2] <= 2 * current_pivot * grid_size[2] - grid_size[1]
    /\ \A k \in 1..Len(positions) : positions[k][2] - LastTick.price >= 8
    /\ RecordsAt(NowTs) = <<>>
    /\ equity_series[Len(equity_series)] = <<capital>>

\* the step evaluates its tick: trading time, before the end-of-day window
EvaluatedStep == TickStep /\ StepTick.time \in (9 * 60)..(14 * 60 + 28)

\* the price of the evaluated tick lies outside the band of the pivot and grid in effect
BreachStepOf ==
    /\ EvaluatedStep
    /\ grid_size # <<>>
    /\ OutsideBand(StepTick.price, current_pivot, grid_size)

\* inside the band, an open position stands at a loss of at least 500,000 * max_loss
MaxLossStepOf ==
    /\ EvaluatedStep
    /\ grid_size # <<>>
    /\ ~OutsideBand(StepTick.price, current_pivot, grid_size)
    /\ \E k \in 1..Len(positions) :
          AdverseVnd(positions[k], StepTick.price) >= 500000 * cfg.max_loss

\* C26: once the grid is initialized, a tick with neither a pivot breach nor a max-loss
\* closure leaves pivot and grid_size unchanged, whatever else it does (take-profit,
\* entries, pairing, overnight fee, skipped tick); on a breach or a max-loss closure the
\* pivot becomes the tick price and the ledger is empty when they change. Before the
\* grid is initialized a tick that is not evaluated leaves both unchanged.
C26_GridFrame ==
    [][TickStep =>
          IF grid_size = <<>>
          THEN /\ grid_size' # <<>> <=> EvaluatedStep
               /\ ~EvaluatedStep => current_pivot' = current_pivot
          ELSE IF BreachStepOf
          THEN /\ current_pivot' = StepTick.price
               /\ grid_size' # <<>>
               /\ tick_info'.tp_ledger = <<>>
          ELSE IF MaxLossStepOf
          THEN /\ current_pivot' = StepTick.price
               /\ grid_size' # <<>>
               /\ positions' = <<>>
          ELSE /\ current_pivot' = current_pivot
               /\ grid_size' = grid_size]_vars

\* after a rebase to a grid other than the initial one, a tick inside the band opened a
\* position and left pivot and grid_size as they were
C26_Witness ==
    /\ Ticked
    /\ tick_info.path = "eval"
    /\ ~tick_info.breach
    /\ tick_info.band_pivot = current_pivot
    /\ tick_info.band_grid = grid_size
    /\ current_pivot # prices[1].price
    /\ grid_size # ClampedGrid(<<10, 1>>)
    /\ Len(mid_positions) = 1
    /\ positions # <<>>

\* the number of price differences among the trailing w ticks of a series of n ticks
\* (the first tick of a series has none)
TrailingDiffs(n, w) ==
    IF n = 0 THEN 0 ELSE IF w >= n THEN n - 1 ELSE w

\* the mean of the last nv absolute price differences of the series, in tenths
TrailingMean(ps, nv) ==
    Rat(SumSeq([k \in 1..nv |->
                   Abs(ps[Len(ps) - nv + k] - ps[Len(ps) - nv + k - 1])]), nv)

\* C27 as stated: calculate_atr(prices, window=w, last_valid_atr=a) returns a whenever
\* the trailing w ticks hold fewer than ceil(w/2) valid price differences or the mean
\* is undefined, and the mean of the valid |price differences| otherwise, for every w,
\* odd and even, and for series shorter than w.
C27_Original ==
    pc = "probed_atr" =>
        probe.atr =
            IF \/ TrailingDiffs(Len(probe.series), probe.window) < (probe.window + 1) \div 2
               \/ TrailingDiffs(Len(probe.series), probe.window) = 0
            THEN probe.last_valid_atr
            ELSE TrailingMean(probe.series,
                              TrailingDiffs(Len(probe.series), probe.window))

\* all positions of the ledger are of one side
SingleSided(pos) == \A j, k \in 1..Len(pos) : pos[j][1] = pos[k][1]

\* C28: the ledger is single-sided. At the end of every tick, and inside the entry loop
\* whenever a position is about to be appended (that is, at the end of the step before),
\* the open positions are all BUY or all SELL, and there are at most 6 of them.
C28_SingleSided ==
    /\ SingleSided(positions) /\ Len(positions) <= 6
    /\ SingleSided(tick_info.tp_ledger) /\ Len(tick_info.tp_ledger) <= 6
    /\ \A m \in 1..Len(mid_positions) :
          /\ SingleSided(Front(mid_positions[m]))
          /\ Len(Front(mid_positions[m])) <= 6

\* a BUY appended to a ledger of one SELL made it two-sided for a moment and was netted
\* away, leaving the ledger empty with ticks still to come
C28_Witness ==
    /\ Ticked
    /\ Len(prices) < n_ticks
    /\ Len(mid_positions) = 1
    /\ Len(mid_positions[1]) = 2
    /\ mid_positions[1][1][1] = "SELL"
    /\ mid_positions[1][2][1] = "BUY"
    /\ HasType(RecordsAt(NowTs), "CLOSE_PAIR")
    /\ positions = <<>>

\* the constructor arguments the claim names have their default values
DefaultRisk == cfg.move_pivot = 6 /\ cfg.max_loss = 20 /\ cfg.contract_value = 100000

\* C29: with the default configuration (move_pivot = 6, max_loss = 20, contract_value =
\* 100,000, grid_size <= 10) the max-loss branch is never taken: on every evaluated
\* tick each position that reaches the max-loss check stands at a loss below
\* 500,000 * 20, a price further away having breached the pivot band first.
C29_NoMaxLoss ==
    DefaultRisk =>
        /\ ~tick_info.forced
        /\ (Ticked /\ tick_info.path = "eval") =>
              \A k \in 1..Len(tick_info.tp_ledger) :
                  AdverseVnd(tick_info.tp_ledger[k], LastTick.price) < 500000 * 20

\* with the grid at its cap of 10 points a BUY stood 50 points under water inside the
\* band and was neither closed nor rebased
C29_Witness ==
    /\ DefaultRisk
    /\ Ticked
    /\ tick_info.path = "eval"
    /\ ~tick_info.breach
    /\ grid_size = <<100, 1>>
    /\ Len(prices) < n_ticks
    /\ positions # <<>>
    /\ positions[1][1] = "BUY"
    /\ AdverseVnd(positions[1], LastTick.price) >= 5000000
    /\ current_pivot = tick_info.band_pivot

=============================================================================
